---- MODULE Spec2Model ----
(***************************************************************************)
(* Model of pool.Workshop (src/pool/workshop.go): a quota-bounded pool of  *)
(* workers with Hire / Fire / Callback / Close, the gc goroutine and the   *)
(* published stats snapshot.                                               *)
(*                                                                         *)
(* Every critical section under w.lock is one atomic action.  Callback and *)
(* Close touch w.closeCh outside the lock, so they are split into steps.   *)
(* Go's random map iteration order and the outcome of the worker factory   *)
(* are nondeterministic choices, so the *Locked operators return the SET   *)
(* of pool states the code can produce.                                    *)
(***************************************************************************)
EXTENDS Integers, FiniteSets, Sequences, TLC

\* ---- bounds of the model ------------------------------------------------
MaxCreated == 3      \* workers the factory may produce in one behaviour
MaxHire == 3         \* successful hires in one behaviour
MaxStray == 1        \* Fire calls that match no outstanding Hire
maxQuota == 2        \* NewWorkshop's maxQuota argument
maxIdleDuration == 1 \* NewWorkshop's maxIdleDuration argument, in ticks

Nil == 0
Workers == 1..MaxCreated
Callers == {"a"}         \* the goroutines that run Callback
Closers == {"x", "y"}    \* the goroutines that run Close

VARIABLES
  infos,        \* w.infos: the set of registered workers (the map's keys)
  infosNil,     \* TRUE once Close has set w.infos = nil
  jobNum,       \* workerInfo.jobNum of each worker's info
  idleExpire,   \* workerInfo.idleExpire, as ticks left until the clock is
                \* past it: Expired for a time already past (the zero Time)
  infoWg,       \* workerInfo.wg: the info's own copy of the WaitGroup
  mostFree,     \* w.mostFree: Nil or a worker (whose info it points to)
  stats,        \* *w.stats
  statsReader,  \* the snapshot Stats() loads
  wg,           \* w.wg: the counter Close waits on
  closeCh,      \* w.closeCh: "open" or "closed"
  created,      \* workers the factory has produced (they are 1..created)
  healthy,      \* what each worker's Health() returns
  closeCalls,   \* how often each worker's Close() has been invoked
  fault,        \* "none", or the unrecovered panic that ended the program
  held,         \* for each worker, the Hires callers have not yet Fired
  strays,       \* Fire calls made so far that match no outstanding Hire
  cb,           \* each Callback goroutine's position and locals
  cl,           \* each Close goroutine's position
  gcPc,         \* the gc goroutine's position
  ret           \* what the step just taken returned, if a call returned in it

poolVars == <<infos, infosNil, jobNum, idleExpire, infoWg, mostFree, stats,
              statsReader, created, healthy, closeCalls, fault>>
vars == <<infos, infosNil, jobNum, idleExpire, infoWg, mostFree, stats,
          statsReader, wg, closeCh, created, healthy, closeCalls, fault,
          held, strays, cb, cl, gcPc, ret>>

\* ---- the state the lock guards, as one value ------------------------------
Pool ==
  [infos |-> infos, infosNil |-> infosNil, jobNum |-> jobNum,
   idleExpire |-> idleExpire, infoWg |-> infoWg, mostFree |-> mostFree,
   stats |-> stats, statsReader |-> statsReader, created |-> created,
   healthy |-> healthy, closeCalls |-> closeCalls, fault |-> fault,
   calls |-> 0, evicted |-> {}]   \* calls, evicted: what one hireLocked did

Install(p) ==
  /\ infos' = p.infos
  /\ infosNil' = p.infosNil
  /\ jobNum' = p.jobNum
  /\ idleExpire' = p.idleExpire
  /\ infoWg' = p.infoWg
  /\ mostFree' = p.mostFree
  /\ stats' = p.stats
  /\ statsReader' = p.statsReader
  /\ created' = p.created
  /\ healthy' = p.healthy
  /\ closeCalls' = p.closeCalls
  /\ fault' = p.fault

ZeroStats ==
  [Worker |-> 0, Idle |-> 0, Created |-> 0, Hire |-> 0, Fire |-> 0,
   Doing |-> 0, MostUsed |-> 0, LeastUsed |-> 0]

\* ---- helpers ---------------------------------------------------------------
\* int32(stats.Hire - stats.Fire): the uint64 difference wraps modulo 2^64 and
\* the conversion keeps its low 32 bits as a two's-complement number.
Int32OfUint64Sub(h, f) ==
  IF h >= f THEN h - f ELSE 0 - (f - h)

\* workerInfo.idleExpire is kept relative to the clock: the number of ticks
\* for which FloorTimeNow().After(idleExpire) stays false.
Expired == 0 - 1

\* coarsetime.FloorTimeNow().After(info.idleExpire)
nowAfter(left) == left < 0

\* coarsetime.CeilingTimeNow().Add(w.maxIdleDuration)
nowAdd(d) == d

panic(p, what) == [p EXCEPT !.fault = what]

workerClose(p, worker) == [p EXCEPT !.closeCalls[worker] = @ + 1]

deleteInfo(p, worker) == [p EXCEPT !.infos = @ \ {worker}]

writeStats(p) == [p EXCEPT !.statsReader = p.stats]

\* hireOne that leaves Doing as it was
hireOne_StaleDoing(s) ==
  [s EXCEPT !.Hire = @ + 1]

hireOne(s) ==
  [s EXCEPT !.Hire = @ + 1, !.Doing = Int32OfUint64Sub(s.Hire + 1, s.Fire)]

fireOne(s) ==
  [s EXCEPT !.Fire = @ + 1, !.Doing = Int32OfUint64Sub(s.Hire, s.Fire + 1)]

\* workerInfo.use
use(p, info) ==
  [p EXCEPT !.jobNum[info] = @ + 1, !.infoWg[info] = @ + 1]

\* workerInfo.free: WaitGroup.Add panics when the counter goes negative
free(p, info) ==
  LET q == [p EXCEPT !.jobNum[info] = @ - 1, !.infoWg[info] = @ - 1]
  IN  IF q.infoWg[info] < 0
        THEN panic(q, "sync: negative WaitGroup counter")
        ELSE q

\* The handles with the least jobNum: the range loop keeps the first one it
\* meets, and Go's map order is random.
mostFreeCandidates(p) ==
  {i \in p.infos : \A j \in p.infos : p.jobNum[i] <= p.jobNum[j]}

updateFreeLocked(p) ==
  IF Cardinality(p.infos) = 0
    THEN {[p EXCEPT !.mostFree = Nil]}
    ELSE {[p EXCEPT !.mostFree = m] : m \in mostFreeCandidates(p)}

\* ---- NewWorkshop.addFn -------------------------------------------------------
\* The results of one w.addFn() call: [p, info, err].  newWorkerFunc returns a
\* worker (healthy or not), returns an error, or panics.  A panic below the
\* deferred recover (the factory's own, or the write to a nil map after Close)
\* becomes the returned error.
\* addFn that registers a worker although the factory returned an error
addFn_KeepsOnError(p) ==
  LET q == [p EXCEPT !.calls = @ + 1]
      worker == p.created + 1
  IN  IF p.created < MaxCreated /\ ~p.infosNil
        THEN {[p |-> [q EXCEPT !.created = worker,
                               !.infos = @ \cup {worker},
                               !.stats.Created = @ + 1,
                               !.stats.Worker = @ + 1],
               info |-> Nil, err |-> "factory error"]}
        ELSE {[p |-> q, info |-> Nil, err |-> "factory error"]}

addFn(p) ==
  LET q == [p EXCEPT !.calls = @ + 1]
      worker == p.created + 1
      made(h) == [q EXCEPT !.created = worker, !.healthy[worker] = h]
      add(h) ==
        IF p.infosNil
          THEN [p |-> made(h), info |-> worker,
                err |-> "assignment to entry in nil map"]
          ELSE [p |-> [made(h) EXCEPT !.infos = @ \cup {worker},
                                      !.stats.Created = @ + 1,
                                      !.stats.Worker = @ + 1],
                info |-> worker, err |-> "nil"]
  IN  {[p |-> q, info |-> Nil, err |-> "factory error"],
       [p |-> q, info |-> Nil, err |-> "factory panic"]}
      \cup (IF p.created < MaxCreated THEN {add(TRUE), add(FALSE)} ELSE {})

\* ---- Workshop.hireLocked ----------------------------------------------------
\* a pool that never reuses and always asks the factory
reuseHint_AlwaysGrow(p, info) ==
  FALSE

\* reuseHint without its test of the quota
reuseHint_NoQuota(p, info) ==
  info # Nil /\ p.jobNum[info] = 0

\* line 211: reuse the hint instead of growing the pool
reuseHint(p, info) ==
  Cardinality(p.infos) >= maxQuota \/ (info # Nil /\ p.jobNum[info] = 0)

\* lines 215-217: the idle hint has expired
evictExpired(p, info) ==
  LET q == workerClose(deleteInfo(p, info), info)
  IN  [q EXCEPT !.stats.Worker = @ - 1,
                !.evicted = @ \cup (IF info \in p.infos THEN {info} ELSE {})]

\* lines 234-238: the candidate failed its health probe
dropUnhealthy(p, info) ==
  LET q == deleteInfo(p, info)
  IN  [q EXCEPT !.stats.Worker = @ - 1,
                !.stats.Idle = IF p.jobNum[info] = 0 THEN @ - 1 ELSE @,
                !.evicted = @ \cup (IF info \in p.infos THEN {info} ELSE {})]

RECURSIVE hireLocked(_)
RECURSIVE hireProbe(_, _)

\* lines 233-244: probe the candidate, then mark it used or start over
hireProbe(p, info) ==
  IF ~p.healthy[info]
    THEN hireLocked(dropUnhealthy(p, info))
    ELSE {[p |-> [use(p, info) EXCEPT !.stats = hireOne(@)],
           info |-> info, err |-> "nil"]}

\* The results of one w.hireLocked() call: [p, info, err].
hireLocked(p) ==
  LET info == p.mostFree IN
  IF reuseHint(p, info)
    THEN IF info = Nil
           THEN {[p |-> panic(p, "nil pointer dereference"),
                  info |-> Nil, err |-> "panic"]}
           ELSE IF p.jobNum[info] = 0
                  THEN LET p1 == [p EXCEPT !.stats.Idle = @ - 1] IN
                       IF nowAfter(p1.idleExpire[info])
                         THEN UNION {hireLocked(p2) :
                                p2 \in updateFreeLocked(evictExpired(p1, info))}
                         ELSE UNION {hireProbe(p2, info) :
                                p2 \in updateFreeLocked(p1)}
                  ELSE UNION {hireProbe(p2, info) : p2 \in updateFreeLocked(p)}
    ELSE UNION {IF r.err # "nil"
                  THEN {[p |-> r.p, info |-> Nil, err |-> r.err]}
                  ELSE hireProbe([r.p EXCEPT !.mostFree = r.info], r.info) :
                r \in addFn(p)}

\* ---- Workshop.fireLocked ----------------------------------------------------
fireLocked(p, info) ==
  LET p1 == [p EXCEPT !.stats = fireOne(@)] IN
  IF ~p1.healthy[info]
    THEN [deleteInfo(p1, info) EXCEPT !.stats.Worker = @ - 1]
    ELSE LET p2 == free(p1, info) IN
         IF p2.fault # "none" THEN p2
         ELSE LET n == p2.jobNum[info]
                  p3 == IF n = 0
                          THEN [p2 EXCEPT
                                  !.idleExpire[info] = nowAdd(maxIdleDuration),
                                  !.stats.Idle = @ + 1]
                          ELSE p2
              IN  IF p3.mostFree = Nil
                    THEN panic(p3, "nil pointer dereference")
                    ELSE IF n >= p3.jobNum[p3.mostFree]
                           THEN p3
                           ELSE [p3 EXCEPT !.mostFree = info]

\* ---- Workshop.refreshLocked -------------------------------------------------
\* reapable that looks at the health probe only
reapable_HealthOnly(p) ==
  {i \in p.infos : p.jobNum[i] = 0 /\ ~p.healthy[i]}

\* the idle handles the sweep removes
reapable(p) ==
  {i \in p.infos : p.jobNum[i] = 0
                   /\ (~p.healthy[i] \/ nowAfter(p.idleExpire[i]))}

Max(S) == CHOOSE x \in S : \A y \in S : y <= x
Min(S) == CHOOSE x \in S : \A y \in S : x <= y

refreshLocked(p) ==
  LET gone == reapable(p)
      left == p.infos \ gone
      loads == {p.jobNum[i] : i \in left}
      p1 == [p EXCEPT
               !.infos = left,
               !.closeCalls = [x \in Workers |->
                                 IF x \in gone THEN @[x] + 1 ELSE @[x]],
               !.stats.Worker = @ - Cardinality(gone),
               !.stats.Idle = @ - Cardinality(gone)]
      done(q) == writeStats(
        [q EXCEPT !.stats.LeastUsed = IF loads = {} THEN 0 ELSE Min(loads),
                  !.stats.MostUsed = Max(loads \cup {0})])
  IN  {done(q) : q \in (IF gone # {} THEN updateFreeLocked(p1) ELSE {p1})}

\* ---- initial state: NewWorkshop has returned --------------------------------
NoRet == [op |-> "-"]

IdleCallback ==
  [pc |-> "idle", worker |-> Nil]

Init ==
  /\ infos = {}
  /\ infosNil = FALSE
  /\ jobNum = [x \in Workers |-> 0]
  /\ idleExpire = [x \in Workers |-> Expired]
  /\ infoWg = [x \in Workers |-> 0]
  /\ mostFree = Nil
  /\ stats = ZeroStats
  /\ statsReader = ZeroStats
  /\ wg = 0
  /\ closeCh = "open"
  /\ created = 0
  /\ healthy = [x \in Workers |-> TRUE]
  /\ closeCalls = [x \in Workers |-> 0]
  /\ fault = "none"
  /\ held = [x \in Workers |-> 0]
  /\ strays = 0
  /\ cb = [c \in Callers |-> IdleCallback]
  /\ cl = [c \in Closers |-> "idle"]
  /\ gcPc = "select"
  /\ ret = NoRet

\* The workers some caller has hired and not yet fired.
Outstanding ==
  {x \in Workers : held[x] > 0} \cup {cb[c].worker : c \in {d \in Callers : cb[d].pc = "fn"}}

\* ---- Workshop.Hire ------------------------------------------------------------
Hire ==
  /\ fault = "none"
  /\ stats.Hire < MaxHire
  /\ \E r \in hireLocked(Pool) :
       /\ Install(IF r.p.fault = "none" THEN writeStats(r.p) ELSE r.p)
       /\ held' = IF r.err = "nil" THEN [held EXCEPT ![r.info] = @ + 1] ELSE held
       /\ ret' = [op |-> "Hire", worker |-> IF r.err = "nil" THEN r.info ELSE Nil,
                  err |-> r.err, closed |-> closeCh = "closed",
                  calls |-> r.p.calls, evicted |-> r.p.evicted \cap infos]
  /\ UNCHANGED <<wg, closeCh, strays, cb, cl, gcPc>>

\* ---- Workshop.Fire ------------------------------------------------------------
\* fireUnknown that also takes the worker off the live count and publishes
fireUnknown_CountsDown(p, worker) ==
  IF worker # Nil
    THEN writeStats([workerClose(p, worker) EXCEPT !.stats.Worker = @ - 1])
    ELSE p

\* lines 157-162: the worker is not in w.infos
fireUnknown(p, worker) ==
  IF worker # Nil THEN workerClose(p, worker) ELSE p

\* The locked section of Fire(worker); worker may be Nil.
FireOp(worker) ==
  LET known == worker \in infos
      q == IF known
             THEN LET f == fireLocked(Pool, worker)
                  IN  IF f.fault = "none" THEN writeStats(f) ELSE f
             ELSE fireUnknown(Pool, worker)
  IN  /\ fault = "none"
      /\ Install(q)
      /\ ret' = [op |-> "Fire", worker |-> worker, known |-> known,
                 probe |-> IF worker = Nil THEN FALSE ELSE healthy[worker],
                 hired |-> IF worker = Nil THEN FALSE ELSE worker \in Outstanding]
      /\ UNCHANGED <<wg, closeCh, cb, cl, gcPc>>

\* A caller returns a worker it hired.
Fire ==
  \E worker \in Workers :
    /\ held[worker] > 0
    /\ FireOp(worker)
    /\ held' = [held EXCEPT ![worker] = @ - 1]
    /\ UNCHANGED strays

\* A caller fires a worker once more than it hired it, or a worker the pool
\* does not know, or nil.
FireStray ==
  \E worker \in 0..created :
    /\ strays < MaxStray
    /\ FireOp(worker)
    /\ strays' = strays + 1
    /\ UNCHANGED held

\* ---- Workshop.Callback --------------------------------------------------------
\* lines 105-109: the select on closeCh
CallbackSelect(c) ==
  /\ fault = "none"
  /\ cb[c].pc = "idle"
  /\ IF closeCh = "closed"
       THEN /\ cb' = cb
            /\ ret' = [op |-> "Callback", err |-> "ErrWorkshopClosed",
                       closed |-> TRUE, hireErr |-> "none", invoked |-> FALSE,
                       fnErr |-> "none", release |-> "none", worker |-> Nil]
       ELSE /\ cb' = [cb EXCEPT ![c].pc = "hire"]
            /\ ret' = NoRet
  /\ UNCHANGED <<poolVars, wg, closeCh, held, strays, cl, gcPc>>

\* lines 110-117: the locked hire
CallbackHire(c) ==
  /\ fault = "none"
  /\ cb[c].pc = "hire"
  /\ stats.Hire < MaxHire
  /\ \E r \in hireLocked(Pool) :
       /\ Install(IF r.p.fault = "none" THEN writeStats(r.p) ELSE r.p)
       /\ IF r.err = "nil"
            THEN /\ cb' = [cb EXCEPT ![c] = [pc |-> "fn", worker |-> r.info]]
                 /\ ret' = NoRet
            ELSE /\ cb' = [cb EXCEPT ![c] = IdleCallback]
                 /\ ret' = [op |-> "Callback", err |-> r.err, closed |-> FALSE,
                            hireErr |-> r.err, invoked |-> FALSE,
                            fnErr |-> "none", release |-> "none",
                            worker |-> Nil]
  /\ UNCHANGED <<wg, closeCh, held, strays, cl, gcPc>>

\* lines 118-129: fn(worker) ends (returning nil, returning an error, or
\* panicking), then the deferred release runs under the lock.
CallbackReturn(c) ==
  /\ fault = "none"
  /\ cb[c].pc = "fn"
  /\ \E r \in {"nil", "fn error", "fn panic"} :
       LET worker == cb[c].worker
           known == worker \in infos
           q == IF known
                  THEN LET f == fireLocked(Pool, worker)
                       IN  IF f.fault = "none" THEN writeStats(f) ELSE f
                  ELSE workerClose(Pool, worker)
       IN  /\ Install(q)
           /\ cb' = [cb EXCEPT ![c] = IdleCallback]
           /\ ret' = [op |-> "Callback", err |-> r, closed |-> FALSE,
                      hireErr |-> "nil", invoked |-> TRUE, fnErr |-> r,
                      release |-> IF known THEN "fired" ELSE "closed",
                      worker |-> worker]
  /\ UNCHANGED <<wg, closeCh, held, strays, cl, gcPc>>

\* ---- Workshop.Close -----------------------------------------------------------
\* lines 134-136: the select on closeCh
CloseSelect(c) ==
  /\ fault = "none"
  /\ cl[c] = "idle"
  /\ IF closeCh = "closed"
       THEN /\ ret' = [op |-> "Close", ran |-> FALSE]
            /\ cl' = cl
       ELSE /\ ret' = NoRet
            /\ cl' = [cl EXCEPT ![c] = "close"]
  /\ UNCHANGED <<poolVars, wg, closeCh, held, strays, cb, gcPc>>

\* line 138: close(w.closeCh) panics on a channel that is already closed
CloseChan(c) ==
  /\ fault = "none"
  /\ cl[c] = "close"
  /\ IF closeCh = "closed"
       THEN /\ fault' = "close of closed channel"
            /\ UNCHANGED <<closeCh, cl>>
       ELSE /\ closeCh' = "closed"
            /\ cl' = [cl EXCEPT ![c] = "wait"]
            /\ fault' = fault
  /\ UNCHANGED <<infos, infosNil, jobNum, idleExpire, infoWg, mostFree, stats,
                 statsReader, created, healthy, closeCalls, wg, held,
                 strays, cb, gcPc>>
  /\ ret' = NoRet

\* lines 143-148, before the final refreshLocked
closeAll(p) ==
  [p EXCEPT !.closeCalls = [x \in Workers |->
                              IF x \in p.infos THEN @[x] + 1 ELSE @[x]],
            !.infos = {},
            !.infosNil = TRUE,
            !.stats.Idle = 0,
            !.stats.Worker = 0]

\* lines 140-150: w.wg.Wait() returns, then the locked section
CloseLocked(c) ==
  /\ fault = "none"
  /\ cl[c] = "wait"
  /\ wg = 0
  /\ \E q \in refreshLocked(closeAll(Pool)) : Install(q)
  /\ cl' = [cl EXCEPT ![c] = "idle"]
  /\ ret' = [op |-> "Close", ran |-> TRUE, destroyed |-> infos,
             inUse |-> Outstanding, again |-> infosNil]
  /\ UNCHANGED <<wg, closeCh, held, strays, cb, gcPc>>

\* ---- Workshop.gc --------------------------------------------------------------
GcSelect ==
  /\ fault = "none"
  /\ gcPc = "select"
  /\ gcPc' = IF closeCh = "closed" THEN "exit" ELSE "sleep"
  /\ ret' = NoRet
  /\ UNCHANGED <<poolVars, wg, closeCh, held, strays, cb, cl>>

GcCycle ==
  /\ fault = "none"
  /\ gcPc = "sleep"
  /\ \E q \in refreshLocked(Pool) : Install(q)
  /\ gcPc' = "select"
  /\ ret' = [op |-> "gc", reaped |-> infos \ infos']
  /\ UNCHANGED <<wg, closeCh, held, strays, cb, cl>>

\* ---- the environment ------------------------------------------------------------
\* The clock advances by one tick.
Tick ==
  /\ fault = "none"
  /\ \E x \in Workers : ~nowAfter(idleExpire[x])
  /\ idleExpire' = [x \in Workers |->
                      IF nowAfter(idleExpire[x]) THEN Expired
                                                 ELSE idleExpire[x] - 1]
  /\ ret' = NoRet
  /\ UNCHANGED <<infos, infosNil, jobNum, infoWg, mostFree, stats, statsReader,
                 created, healthy, closeCalls, fault, wg, closeCh, held,
                 strays, cb, cl, gcPc>>

\* A worker's Health() starts to return false.  Only the workers the pool
\* still refers to are ever probed.
HealthChange ==
  /\ fault = "none"
  /\ \E worker \in infos \cup ({mostFree} \ {Nil}) :
       /\ healthy[worker]
       /\ healthy' = [healthy EXCEPT ![worker] = FALSE]
  /\ ret' = NoRet
  /\ UNCHANGED <<infos, infosNil, jobNum, idleExpire, infoWg, mostFree, stats,
                 statsReader, created, closeCalls, fault, wg, closeCh,
                 held, strays, cb, cl, gcPc>>

\* Callers that Fire exactly what they hired, one goroutine in Callback, one
\* goroutine that calls Close, the gc goroutine, the clock and the workers.
Next ==
  \/ Hire
  \/ Fire
  \/ \E c \in Callers : CallbackSelect(c)
  \/ \E c \in Callers : CallbackHire(c)
  \/ \E c \in Callers : CallbackReturn(c)
  \/ CloseSelect("x")
  \/ CloseChan("x")
  \/ CloseLocked("x")
  \/ GcSelect
  \/ GcCycle
  \/ Tick
  \/ HealthChange

Spec == Init /\ [][Next]_vars

\* Several goroutines call Close while callers Hire and Fire.
NextClosers ==
  \/ Hire
  \/ Fire
  \/ \E c \in Closers : CloseSelect(c)
  \/ \E c \in Closers : CloseChan(c)
  \/ \E c \in Closers : CloseLocked(c)
  \/ GcSelect
  \/ GcCycle

SpecClosers == Init /\ [][NextClosers]_vars

\* Callers that also Fire workers they do not hold.
NextStray ==
  \/ Hire
  \/ Fire
  \/ FireStray
  \/ GcSelect
  \/ GcCycle
  \/ Tick
  \/ HealthChange

SpecStray == Init /\ [][NextStray]_vars

FactoryErrors == {"factory error", "factory panic"}

\* ---- C1 -----------------------------------------------------------------------
\* C1: when the locked section of Close invokes Close() on registered workers,
\* every successful Hire has been matched by a Fire: no caller holds a worker.
C1_CloseAfterDrain ==
  (ret.op = "Close" /\ ret.ran /\ ret.destroyed # {}) => ret.inUse = {}

\* ---- C2 -----------------------------------------------------------------------
\* C2: a Hire() made once closeCh is closed returns ErrWorkshopClosed and no
\* worker.
C2_HireAfterCloseRejected ==
  (ret.op = "Hire" /\ ret.closed) =>
    (ret.err = "ErrWorkshopClosed" /\ ret.worker = Nil)

\* ---- C3 -----------------------------------------------------------------------
\* C3: however many Close() calls interleave, none faults, the locked section
\* takes effect once, and each handle left in the registry is closed once.
C3_CloseIdempotent ==
  /\ fault = "none"
  /\ (ret.op = "Close" /\ ret.ran) =>
       (~ret.again /\ \A x \in ret.destroyed : closeCalls[x] = 1)

\* ---- C4 -----------------------------------------------------------------------
\* C4: the registry never holds more than maxQuota handles.
C4_QuotaBound ==
  Cardinality(infos) <= maxQuota

\* A Hire at full quota has just shared a handle that was already in use.
C4_Witness ==
  /\ ret.op = "Hire"
  /\ ret.err = "nil"
  /\ Cardinality(infos) = maxQuota
  /\ jobNum[ret.worker] >= 2

\* ---- C5 -----------------------------------------------------------------------
\* C5: in the snapshot Stats() returns, Doing is Hire minus Fire.
C5_DoingDerived ==
  statsReader.Doing = statsReader.Hire - statsReader.Fire

\* A snapshot published after more Fires than Hires.
C5_Witness ==
  /\ statsReader.Fire > statsReader.Hire
  /\ statsReader.Doing < 0

\* ---- C6 -----------------------------------------------------------------------
\* C6: a Fire of a hired, registered worker whose Health() is false removes
\* the handle, invokes the worker's Close(), lowers stats.Worker by one and
\* does not raise stats.Idle.
C6_FireUnhealthyDestroys ==
  [][(ret'.op = "Fire" /\ ret'.known /\ ret'.hired /\ ~ret'.probe) =>
       /\ ret'.worker \notin infos'
       /\ closeCalls'[ret'.worker] = closeCalls[ret'.worker] + 1
       /\ stats'.Worker = stats.Worker - 1
       /\ stats'.Idle <= stats.Idle]_vars

\* ---- C7 -----------------------------------------------------------------------
\* C7 as stated: a Hire in which the factory fails returns the error and no
\* worker, and leaves the registry exactly as it was.
C7_RegistryUnchanged ==
  [][(ret'.op = "Hire" /\ ret'.err \in FactoryErrors) =>
       (ret'.worker = Nil /\ infos' = infos)]_vars

\* C7 as amended: a Hire in which the factory fails returns the error and no
\* worker and adds nothing to the registry; the registry afterwards is the
\* registry before less the candidates this call evicted (an expired idle
\* hint, an unhealthy candidate) before it invoked the factory.
C7_RegistryOnlyShrinks ==
  [][(ret'.op = "Hire" /\ ret'.err \in FactoryErrors) =>
       /\ ret'.worker = Nil
       /\ infos' = infos \ ret'.evicted]_vars

\* A Hire has just failed in the factory after evicting a registered handle,
\* and a handle is left.
C7_Witness ==
  /\ ret.op = "Hire"
  /\ ret.err \in FactoryErrors
  /\ ret.evicted # {}
  /\ infos # {}

\* ---- C8 -----------------------------------------------------------------------
\* C8: one Hire() invokes the factory at most once, and every retry it makes
\* removes a handle from the registry, so it makes at most as many retries as
\* the registry had handles, plus one for a freshly created worker.
C8_OneFactoryCall ==
  ret.op = "Hire" => ret.calls <= 1

\* ---- C9 -----------------------------------------------------------------------
\* C9: Callback invokes fn only after a successful hire; it returns
\* ErrWorkshopClosed when closeCh was closed at the call, the factory's error
\* when the factory failed, fn not being invoked in either case; in every
\* other case it invokes fn and returns what fn returned.
C9_CallbackResult ==
  ret.op = "Callback" =>
    /\ ret.invoked => ret.hireErr = "nil"
    /\ ret.closed => (ret.err = "ErrWorkshopClosed" /\ ~ret.invoked)
    /\ ret.hireErr \in FactoryErrors => (ret.err = ret.hireErr /\ ~ret.invoked)
    /\ (~ret.closed /\ ret.hireErr \notin FactoryErrors) =>
         (ret.invoked /\ ret.err = ret.fnErr)

\* ---- C10 ----------------------------------------------------------------------
\* C10: when fn has run, Callback releases the worker exactly once: a worker
\* still registered is fired (its jobNum goes down by one, stats.Fire up by
\* one, no Close()), any other worker has Close() invoked once and the stats
\* are left alone.
C10_CallbackReleases ==
  [][(ret'.op = "Callback" /\ ret'.invoked) =>
       IF ret'.worker \in infos
         THEN /\ ret'.release = "fired"
              /\ stats'.Fire = stats.Fire + 1
              /\ jobNum'[ret'.worker] = jobNum[ret'.worker] - 1
              /\ closeCalls' = closeCalls
         ELSE /\ ret'.release = "closed"
              /\ closeCalls'[ret'.worker] = closeCalls[ret'.worker] + 1
              /\ stats' = stats
              /\ jobNum' = jobNum]_vars

\* ---- C11 ----------------------------------------------------------------------
\* C11: a Fire of a worker that is not in the registry changes no field of the
\* stats, of the published snapshot or of the registry, and does not fault.
C11_FireUnknownFrame ==
  [][(ret'.op = "Fire" /\ ~ret'.known) =>
       /\ statsReader' = statsReader
       /\ stats' = stats
       /\ infos' = infos
       /\ infosNil' = infosNil
       /\ fault' = "none"]_vars

\* A Fire has just closed a worker the registry had already dropped, with
\* other handles registered and a snapshot that counts hires.
C11_Witness ==
  /\ ret.op = "Fire"
  /\ ~ret.known
  /\ ret.worker # Nil
  /\ closeCalls[ret.worker] >= 1
  /\ infos # {}
  /\ statsReader.Hire >= 1

\* ---- C12 ----------------------------------------------------------------------
\* C12: a gc cycle removes every registered handle with jobNum 0 whose
\* idleExpire has passed, and that worker's Close() has then been invoked
\* exactly once.
C12_ReaperEvictsExpired ==
  [][(gcPc = "sleep" /\ gcPc' = "select") =>
       \A x \in infos :
         (jobNum[x] = 0 /\ nowAfter(idleExpire[x])) =>
           /\ x \notin infos'
           /\ closeCalls[x] = 0
           /\ closeCalls'[x] = 1]_vars

\* A gc cycle has just reaped a healthy worker, which it closed once.
C12_Witness ==
  /\ ret.op = "gc"
  /\ \E x \in ret.reaped : healthy[x] /\ closeCalls[x] = 1

\* ---- C13 ----------------------------------------------------------------------
\* C13: with the registry at quota and holding a healthy handle that was fired
\* down to jobNum 0 and is not past its idleExpire, a Hire returns a handle
\* that was registered and does not invoke the factory.
C13_ReuseAtQuota ==
  [][(/\ ret'.op = "Hire"
      /\ Cardinality(infos) = maxQuota
      /\ \E x \in infos :
           healthy[x] /\ jobNum[x] = 0 /\ ~nowAfter(idleExpire[x])) =>
       /\ ret'.err = "nil"
       /\ ret'.worker \in infos
       /\ ret'.calls = 0]_vars

\* A Hire at quota has just taken an idle handle that had not expired.
C13_Witness ==
  /\ ret.op = "Hire"
  /\ ret.err = "nil"
  /\ ret.calls = 0
  /\ Cardinality(infos) = maxQuota
  /\ jobNum[ret.worker] = 1
  /\ ~nowAfter(idleExpire[ret.worker])

\* C14: every handle's jobNum is >= 0 in every reachable state, Fire of a
\* registered worker that is not hired (a double release) included.
C14_JobNumNonNegative ==
  \A x \in Workers : jobNum[x] >= 0

\* C15: whenever the pool lock is free (between two steps of a running, open
\* pool), the hint, when present, refers to a handle that is in the registry.
C15_HintRegistered ==
  (fault = "none" /\ closeCh = "open" /\ mostFree # Nil) => mostFree \in infos

\* C16: Fire of a registered handle always decrements its jobNum, and a handle
\* whose jobNum is still > 0 after the Fire stays in the registry whatever the
\* worker's health.
C16_FireDecrements ==
  [][(ret'.op = "Fire" /\ ret'.known) =>
       /\ jobNum'[ret'.worker] = jobNum[ret'.worker] - 1
       /\ (jobNum[ret'.worker] - 1 > 0 => ret'.worker \in infos')]_vars

\* C17: while the pool is open, the published WorkerCount equals the number of
\* handles in the registry.
C17_WorkerCount ==
  (fault = "none" /\ closeCh = "open") =>
    statsReader.Worker = Cardinality(infos)

\* C18: the published IdleCount is >= 0 and equals the number of registered
\* handles with jobNum 0.
C18_IdleCount ==
  fault = "none" =>
    /\ statsReader.Idle >= 0
    /\ statsReader.Idle = Cardinality({x \in infos : jobNum[x] = 0})

\* C19: after a Hire that has reused the idle hint, the hint refers to a
\* registered handle whose jobNum is minimal among the registered handles.
C19_HintMinimalAfterReuse ==
  [][(/\ ret'.op = "Hire" /\ ret'.err = "nil" /\ ret'.calls = 0
      /\ ret'.evicted = {}
      /\ mostFree \in infos /\ jobNum[mostFree] = 0
      /\ ret'.worker = mostFree) =>
       /\ mostFree' \in infos'
       /\ \A j \in infos' : jobNum'[mostFree'] <= jobNum'[j]]_vars

\* C20: when every successful Hire is Fired exactly once, each worker the
\* factory produced has its Close() invoked at most once, and exactly once if
\* it has been removed from the registry.
C20_CloseOnce ==
  fault = "none" =>
    \A x \in 1..created :
      /\ closeCalls[x] <= 1
      /\ (x <= stats.Created /\ x \notin infos /\ x \notin Outstanding) =>
           closeCalls[x] = 1

====
